---- MODULE Spec2Model ----
(***************************************************************************)
(* Model of the startup substrate of panshi: the component registry        *)
(* (src/src/component), the configuration loader (src/src/config.rs) and   *)
(* the process entry point (src/src/cli.rs).                               *)
(*                                                                         *)
(* Two state machines share the module:                                    *)
(*   Spec        the component registry used by several tasks              *)
(*   LoaderSpec  one run of cli::main (environment resolution + loading)   *)
(***************************************************************************)
EXTENDS Naturals, Sequences, FiniteSets, TLC

(***************************************************************************)
(* Bounds of the registry model.                                           *)
(***************************************************************************)
NumTasks == 2
MaxCalls == 2
\* Nested component calls of one task that are followed (a chain of
\* requests that never ends is cut here).
MaxDepth == 4

Tasks == 1..NumTasks

(***************************************************************************)
(* Component kinds: the three ComponentProvider implementations.           *)
(***************************************************************************)
SessionAnySessionStore == "SessionAnySessionStore"
AnyRedisPool == "AnyRedisPool"
DbConn == "DbConn"

Kinds == {SessionAnySessionStore, AnyRedisPool, DbConn}

\* TypeId::of, were every type to have the same identity.
TypeId_collapsed(k) == "T"

\* TypeId::of::<T>() : one identity per concrete type.
TypeId(k) == k

\* Providers an application can add: ComponentProvider is a public trait
\* and create is handed the `&mut ComponentRegister`, so a create can
\* request any kind, its own included.  SelfDep::create requests SelfDep;
\* DepA::create requests DepB and DepB::create requests DepA.
SelfDep == "SelfDep"
DepA == "DepA"
DepB == "DepB"

CycleKinds == {SelfDep, DepA, DepB}

\* The kind such a provider's create requests from the registry.
Requests(k) ==
    CASE k = SelfDep -> SelfDep
      [] k = DepA -> DepB
      [] k = DepB -> DepA

\* T::config_key()
config_key(k) ==
    CASE k = SessionAnySessionStore -> "session"
      [] k = AnyRedisPool -> "redis"
      [] k = DbConn -> "database"
      [] k = SelfDep -> "selfdep"
      [] k = DepA -> "depa"
      [] k = DepB -> "depb"

ConfigKeys == {config_key(k) : k \in Kinds}

(***************************************************************************)
(* Results and errors.  crate::error::Error is modelled by its variant     *)
(* name; provider errors are the foreign error types before conversion.    *)
(***************************************************************************)
\* A component value.  `kind` is its concrete type, `id` the resource the
\* provider built (a clone is a handle to the same resource, so it keeps
\* the id), `dep` the id of the redis pool a session store was built from.
NoInst == [kind |-> "none", id |-> 0, dep |-> 0]

Ok(v) == [ok |-> TRUE, val |-> v, err |-> "none"]
Err(e) == [ok |-> FALSE, val |-> NoInst, err |-> e]
NoResult == [ok |-> FALSE, val |-> NoInst, err |-> "pending"]

\* impl From<..> for Error (the #[from] attributes of the enum), and the
\* reflexive conversion of crate::error::Error into itself.
IntoError(e) ==
    CASE e = "config::ConfigError" -> "ConfigError"
      [] e = "redis::RedisError" -> "RedisError"
      [] e = "sea_orm::DbErr" -> "DB"
      [] e = "axum_session::SessionError" -> "SessionError"
      [] e = "std::io::Error" -> "IOError"
      [] e = "tera::Error" -> "Tera"
      [] OTHER -> e

(***************************************************************************)
(* The configuration document held by the registry: a map from top-level   *)
(* keys to sections.  A section is "ok" (deserializes into T::Config and   *)
(* the provider accepts it), "badurl" (deserializes, but redis::Client::   *)
(* open rejects the url) or "mismatch" (does not deserialize).  A key that *)
(* is not in the domain is missing from the document.                      *)
(***************************************************************************)
SectionValues(key) ==
    IF key = "redis" THEN {"ok", "badurl", "mismatch"} ELSE {"ok", "mismatch"}

Documents ==
    UNION { { d \in [ks -> {"ok", "badurl", "mismatch"}] :
                \A key \in ks : d[key] \in SectionValues(key) }
            : ks \in SUBSET ConfigKeys }

\* Config::get, were a missing or ill-shaped section to fall back to a
\* default value.
Config_get_or_default(doc, key) ==
    IF key \in DOMAIN doc /\ doc[key] # "mismatch"
    THEN [ok |-> TRUE, section |-> doc[key], err |-> "none"]
    ELSE [ok |-> TRUE, section |-> "ok", err |-> "none"]

\* Config::get::<T>(key)
Config_get(doc, key) ==
    IF key \notin DOMAIN doc
    THEN [ok |-> FALSE, section |-> "none", err |-> IntoError("config::ConfigError")]
    ELSE IF doc[key] = "mismatch"
    THEN [ok |-> FALSE, section |-> "none", err |-> IntoError("config::ConfigError")]
    ELSE [ok |-> TRUE, section |-> doc[key], err |-> "none"]

(***************************************************************************)
(* Registry state.                                                         *)
(***************************************************************************)
VARIABLES
    config,               \* ComponentRegister.config
    created_components,   \* ComponentRegister.created_components
    stack,                \* per task: the component::<T>() calls it is inside
    tasks,                \* per task: what it is doing and what it got last
    calls,                \* component::<T>() calls requested by tasks so far
    nextInst,             \* identity of the next instance a provider builds
    createLog,            \* per kind: what became of each T::create invocation
    cfgReads,             \* per kind: config.get(T::config_key()) evaluations
    got                   \* per task: what its last direct get::<T>() returned

regVars == <<config, created_components, stack, tasks, calls, nextInst,
             createLog, cfgReads, got>>

(***************************************************************************)
(* State of one run of cli::main.                                          *)
(***************************************************************************)
VARIABLES
    cli,          \* Cli.environment, the --environment flag
    environ,      \* the process environment
    dotenvFile,   \* what ./.env defines (empty: there is no such file)
    fs,           \* the files that exist: path -> [readable, text]
    pc,           \* where main is
    env,          \* main's `env`, the resolved Environment
    loaded        \* what env.load_config() did and returned

loaderVars == <<cli, environ, dotenvFile, fs, pc, env, loaded>>

(***************************************************************************)
(* State of one create_app call.                                           *)
(***************************************************************************)
VARIABLES
    appPc,        \* where create_app is
    appArgs,      \* its arguments: [config, environment]
    initLog,      \* the arguments of every App::init invocation so far
    initRet,      \* what App::init returned
    appRet        \* what create_app returned

appVars == <<appPc, appArgs, initLog, initRet, appRet>>

vars == <<regVars, loaderVars, appVars>>

\* Per kind: the T::create invocations so far, and those that returned Err.
creates == [k \in Kinds |-> Len(createLog[k])]

fails ==
    [k \in Kinds |->
       Cardinality({i \in 1..Len(createLog[k]) : createLog[k][i] = "err"})]

\* Per kind: the T::create invocations whose future was dropped before it
\* had returned.
cancels ==
    [k \in Kinds |->
       Cardinality({i \in 1..Len(createLog[k]) : createLog[k][i] = "cancelled"})]

\* One component::<T>() call in progress.  pc is the place in the body:
\*   "get"      mod.rs:27   about to look the kind up
\*   "config"   mod.rs:31   about to evaluate self.config.get(T::config_key())
\*   "create"   mod.rs:31   T::create has been invoked and is in flight
\*   "dep"      session.rs:29  awaiting the nested component::<AnyRedisPool>()
\*   "afterdep" session.rs:29  the nested call has returned, `?` not yet applied
\*   "new"      session.rs:32-55 awaiting SessionAnySessionStore::new
\*   "insert"   mod.rs:35   create returned Ok, about to insert
\* section is the extracted config, nth the ordinal of this call's
\* T::create invocation among those of its kind, component what create
\* returned, ret what the nested call returned.
Frame(k) ==
    [kind |-> k, pc |-> "get", section |-> "none", nth |-> 0,
     component |-> NoInst, ret |-> NoResult]

CreatePcs == {"create", "dep", "afterdep", "new"}

Top(t) == stack[t][Len(stack[t])]

SetTop(t, f) == [stack EXCEPT ![t] = [@ EXCEPT ![Len(@)] = f]]

Outermost(t) == Len(stack[t]) = 1

\* The tasks that are inside T::create for kind k.
InCreate(k) ==
    { t \in Tasks :
        \E i \in 1..Len(stack[t]) :
            stack[t][i].kind = k /\ stack[t][i].pc \in CreatePcs }

\* The tasks whose component::<k>() call has been issued and has not returned.
Pending(k) ==
    { t \in Tasks : tasks[t].st \in {"waiting", "running"} /\ tasks[t].kind = k }

\* What is remembered of a task's current (or last) outermost call:
\*   st          "idle" (no call, or the call has returned), "waiting" (for
\*               exclusive access to the registry), "running" (inside component)
\*   kind        the T of the call
\*   result      what the call returned
\*   extracted   whether the call evaluated config.get(T::config_key())
\*   invoked     "no", or what became of its own T::create invocation:
\*               "inflight", "ok", "err", "cancelled"
\*   peers       the tasks whose call for the same kind was pending when
\*               this call was issued
\*   sawInFlight the ordinal of the T::create invocation that was in flight
\*               when this call was issued (0: none was)
IdleTask ==
    [st |-> "idle", kind |-> "none", result |-> NoResult,
     extracted |-> FALSE, invoked |-> "no", peers |-> {}, sawInFlight |-> 0]

\* What a direct get::<T>() returned: Option<T> ("Some" / "None"), or the
\* panic of the unwrap ("Panic"); "none": the task has not called get.
NoGet == [kind |-> "none", tag |-> "none", val |-> NoInst]

\* ComponentRegister::new
ComponentRegister_new(doc) ==
    /\ config = doc
    /\ created_components = << >>

RegInit ==
    /\ \E doc \in Documents : ComponentRegister_new(doc)
    /\ stack = [t \in Tasks |-> << >>]
    /\ tasks = [t \in Tasks |-> IdleTask]
    /\ calls = 0
    /\ nextInst = 1
    /\ createLog = [k \in Kinds |-> << >>]
    /\ cfgReads = [k \in Kinds |-> 0]
    /\ got = [t \in Tasks |-> NoGet]

\* The registry, were it handed out without exclusion.
borrow_not_exclusive == TRUE

\* component takes `&mut self`: while one call (with everything nested in
\* it) is alive, the exclusive borrow of the registry is taken and no other
\* task can be inside component or get.
MutBorrowFree == \A u \in Tasks : stack[u] = << >>

\* A task asks for component::<k>() and waits for exclusive access.  What was
\* remembered of its previous call is forgotten, also by the other tasks.
Request(t, k) ==
    /\ tasks[t].st = "idle"
    /\ calls < MaxCalls
    /\ calls' = calls + 1
    /\ tasks' = [u \in Tasks |->
                   IF u = t
                   THEN [IdleTask EXCEPT
                           !.st = "waiting", !.kind = k,
                           !.peers = Pending(k),
                           !.sawInFlight =
                               IF InCreate(k) # {} THEN Len(createLog[k])
                               ELSE 0]
                   ELSE [tasks[u] EXCEPT !.peers = @ \ {t}]]
    /\ UNCHANGED <<config, created_components, stack, nextInst,
                   createLog, cfgReads, got, loaderVars, appVars>>

\* The task is given the `&mut ComponentRegister` by the code that shares
\* the registry (the crate itself hands it to no one) and the call starts.
Enter(t) ==
    /\ tasks[t].st = "waiting"
    /\ MutBorrowFree
    /\ stack' = [stack EXCEPT ![t] = <<Frame(tasks[t].kind)>>]
    /\ tasks' = [tasks EXCEPT ![t].st = "running"]
    /\ UNCHANGED <<config, created_components, calls, nextInst,
                   createLog, cfgReads, got, loaderVars, appVars>>

\* The top call of task t returns res: to the task when it is the outermost
\* call (tk is what is remembered of the call), else to the create that
\* awaits it.
Return(t, res, tk) ==
    IF Outermost(t)
    THEN /\ stack' = [stack EXCEPT ![t] = << >>]
         /\ tasks' = [tasks EXCEPT ![t] =
                        [tk EXCEPT !.st = "idle", !.result = res]]
    ELSE /\ stack' = [stack EXCEPT ![t] =
                        [i \in 1..(Len(@) - 1) |->
                           IF i = Len(@) - 1
                           THEN [@[i] EXCEPT !.pc = "afterdep", !.ret = res]
                           ELSE @[i]]]
         /\ UNCHANGED tasks

\* get, were it to miss entries that are there.
get_never_finds(cc, k) == [tag |-> "None", val |-> NoInst]

\* ComponentRegister::get
get(cc, k) ==
    IF TypeId(k) \in DOMAIN cc
    THEN IF cc[TypeId(k)].kind = k
         THEN [tag |-> "Some", val |-> cc[TypeId(k)]]
         ELSE [tag |-> "Panic", val |-> NoInst]
    ELSE [tag |-> "None", val |-> NoInst]

\* insert, were it to start the map over with the one entry.
insert_replacing_store(cc, id, v) == [x \in {id} |-> v]

\* DashMap::insert
insert(cc, id, v) ==
    [x \in DOMAIN cc \cup {id} |-> IF x = id THEN v ELSE cc[x]]

\* component_get, were component to go on to the construction without
\* looking at what get found.
component_get_unchecked(t) ==
    /\ stack[t] # << >>
    /\ Top(t).pc = "get"
    /\ stack' = SetTop(t, [Top(t) EXCEPT !.pc = "config"])
    /\ UNCHANGED <<config, created_components, tasks, calls, nextInst,
                   createLog, cfgReads, got, loaderVars, appVars>>

\* component: `if let Some(component) = self.get::<T>().await { return Ok(component) }`
\* (the unwrap of a failed downcast panics and unwinds the task's calls).
component_get(t) ==
    /\ stack[t] # << >>
    /\ Top(t).pc = "get"
    /\ LET r == get(created_components, Top(t).kind) IN
         CASE r.tag = "Some" -> Return(t, Ok(r.val), tasks[t])
           [] r.tag = "Panic" ->
                /\ stack' = [stack EXCEPT ![t] = << >>]
                /\ tasks' = [tasks EXCEPT ![t].st = "idle",
                                          ![t].result = Err("panic")]
           [] OTHER ->
                /\ stack' = SetTop(t, [Top(t) EXCEPT !.pc = "config"])
                /\ UNCHANGED tasks
    /\ UNCHANGED <<config, created_components, calls, nextInst,
                   createLog, cfgReads, got, loaderVars, appVars>>

\* component_config, were component to put an entry for T in place when it
\* invokes T::create, to be completed by the insert.
component_config_reserving(t) ==
    /\ stack[t] # << >>
    /\ Top(t).pc = "config"
    /\ LET k == Top(t).kind
           c == Config_get(config, config_key(k))
           tk == IF Outermost(t)
                 THEN [tasks[t] EXCEPT !.extracted = TRUE,
                                       !.invoked = IF c.ok THEN "inflight" ELSE "no"]
                 ELSE tasks[t] IN
         /\ cfgReads' = [cfgReads EXCEPT ![k] = @ + 1]
         /\ IF c.ok
            THEN /\ stack' = SetTop(t, [Top(t) EXCEPT
                                          !.pc = "create",
                                          !.section = c.section,
                                          !.nth = Len(createLog[k]) + 1])
                 /\ createLog' = [createLog EXCEPT ![k] = Append(@, "inflight")]
                 /\ tasks' = [tasks EXCEPT ![t] = tk]
                 /\ created_components' =
                      insert(created_components, TypeId(k),
                             [kind |-> k, id |-> 0, dep |-> 0])
            ELSE /\ Return(t, Err(c.err), tk)
                 /\ UNCHANGED <<createLog, created_components>>
    /\ UNCHANGED <<config, calls, nextInst, got, loaderVars, appVars>>

\* component: `self.config.get::<T::Config>(T::config_key())?` and, when it
\* is Ok, the invocation of T::create with it.
component_config(t) ==
    /\ stack[t] # << >>
    /\ Top(t).pc = "config"
    /\ LET k == Top(t).kind
           c == Config_get(config, config_key(k))
           tk == IF Outermost(t)
                 THEN [tasks[t] EXCEPT !.extracted = TRUE,
                                       !.invoked = IF c.ok THEN "inflight" ELSE "no"]
                 ELSE tasks[t] IN
         /\ cfgReads' = [cfgReads EXCEPT ![k] = @ + 1]
         /\ IF c.ok
            THEN /\ stack' = SetTop(t, [Top(t) EXCEPT
                                          !.pc = "create",
                                          !.section = c.section,
                                          !.nth = Len(createLog[k]) + 1])
                 /\ createLog' = [createLog EXCEPT ![k] = Append(@, "inflight")]
                 /\ tasks' = [tasks EXCEPT ![t] = tk]
            ELSE /\ Return(t, Err(c.err), tk)
                 /\ UNCHANGED createLog
    /\ UNCHANGED <<config, created_components, calls, nextInst, got, loaderVars, appVars>>

\* create_failed, were component to insert what it holds before looking at
\* the result of T::create.
create_failed_leaves_entry(t, e) ==
    /\ Return(t, Err(IntoError(e)),
              IF Outermost(t) THEN [tasks[t] EXCEPT !.invoked = "err"]
              ELSE tasks[t])
    /\ createLog' = [createLog EXCEPT ![Top(t).kind][Top(t).nth] = "err"]
    /\ created_components' =
         [x \in DOMAIN created_components \cup {TypeId(Top(t).kind)} |->
            IF x = TypeId(Top(t).kind) THEN Top(t).component
            ELSE created_components[x]]
    /\ UNCHANGED <<config, calls, nextInst, cfgReads, got, loaderVars, appVars>>

\* create_failed, were a failed construction to take the store down with it.
create_failed_clears_store(t, e) ==
    /\ Return(t, Err(IntoError(e)),
              IF Outermost(t) THEN [tasks[t] EXCEPT !.invoked = "err"]
              ELSE tasks[t])
    /\ createLog' = [createLog EXCEPT ![Top(t).kind][Top(t).nth] = "err"]
    /\ created_components' = << >>
    /\ UNCHANGED <<config, calls, nextInst, cfgReads, got, loaderVars, appVars>>

\* T::create returned Err(e): `.map_err(|err| err.into())?` in component.
create_failed(t, e) ==
    /\ Return(t, Err(IntoError(e)),
              IF Outermost(t) THEN [tasks[t] EXCEPT !.invoked = "err"]
              ELSE tasks[t])
    /\ createLog' = [createLog EXCEPT ![Top(t).kind][Top(t).nth] = "err"]
    /\ UNCHANGED <<config, created_components, calls, nextInst, cfgReads, got, loaderVars, appVars>>

\* T::create returned Ok(component): component goes on to the insert.
create_succeeded(t, dep) ==
    /\ stack' = SetTop(t, [Top(t) EXCEPT
                             !.pc = "insert",
                             !.component = [kind |-> Top(t).kind,
                                            id |-> nextInst, dep |-> dep]])
    /\ tasks' = IF Outermost(t)
                THEN [tasks EXCEPT ![t].invoked = "ok"]
                ELSE tasks
    /\ nextInst' = nextInst + 1
    /\ createLog' = [createLog EXCEPT ![Top(t).kind][Top(t).nth] = "ok"]
    /\ UNCHANGED <<config, created_components, calls, cfgReads, got, loaderVars, appVars>>

\* impl ComponentProvider for RedisPool: AnyClient::new(&config)? then
\* RedisPool::new.  Nothing is awaited; the outcome is decided by the url.
AnyRedisPool_create(t) ==
    /\ stack[t] # << >>
    /\ Top(t).kind = AnyRedisPool
    /\ Top(t).pc = "create"
    /\ IF Top(t).section = "badurl"
       THEN create_failed(t, "redis::RedisError")
       ELSE create_succeeded(t, 0)

\* impl ComponentProvider for DbConn: Database::connect(options).await
DbConn_create(t, connected) ==
    /\ stack[t] # << >>
    /\ Top(t).kind = DbConn
    /\ Top(t).pc = "create"
    /\ IF connected
       THEN create_succeeded(t, 0)
       ELSE create_failed(t, "sea_orm::DbErr")

\* SessionStore_create_dep, were the session store to build a redis pool of
\* its own whether or not the registry holds one.
SessionStore_create_dep_fresh(t) ==
    /\ stack[t] # << >>
    /\ Top(t).kind = SessionAnySessionStore
    /\ Top(t).pc = "create"
    /\ stack' = [stack EXCEPT ![t] =
                   Append([@ EXCEPT ![Len(@)].pc = "dep"],
                          [Frame(AnyRedisPool) EXCEPT !.pc = "config"])]
    /\ UNCHANGED <<config, created_components, tasks, calls, nextInst,
                   createLog, cfgReads, got, loaderVars, appVars>>

\* SessionAnySessionStore::create, first statement: the nested
\* component_register.component::<AnyRedisPool>() is called and awaited.
SessionStore_create_dep(t) ==
    /\ stack[t] # << >>
    /\ Top(t).kind = SessionAnySessionStore
    /\ Top(t).pc = "create"
    /\ stack' = [stack EXCEPT ![t] =
                   Append([@ EXCEPT ![Len(@)].pc = "dep"], Frame(AnyRedisPool))]
    /\ UNCHANGED <<config, created_components, tasks, calls, nextInst,
                   createLog, cfgReads, got, loaderVars, appVars>>

\* ... `.await?` on the nested call's result.
\* The session store's create, were it to request the pool again after the
\* request failed.
SessionStore_create_afterdep_retrying(t) ==
    /\ stack[t] # << >>
    /\ Top(t).kind = SessionAnySessionStore
    /\ Top(t).pc = "afterdep"
    /\ IF Top(t).ret.ok
       THEN /\ stack' = SetTop(t, [Top(t) EXCEPT !.pc = "new"])
            /\ UNCHANGED <<config, created_components, tasks, calls, nextInst,
                           createLog, cfgReads, got, loaderVars, appVars>>
       ELSE IF Len(createLog[AnyRedisPool]) <= MaxCalls
       THEN /\ stack' = [stack EXCEPT ![t] =
                           Append([@ EXCEPT ![Len(@)].pc = "dep"],
                                  Frame(AnyRedisPool))]
            /\ UNCHANGED <<config, created_components, tasks, calls, nextInst,
                           createLog, cfgReads, got, loaderVars, appVars>>
       ELSE create_failed(t, Top(t).ret.err)

\* ... `?` on the nested call's result.
SessionStore_create_afterdep(t) ==
    /\ stack[t] # << >>
    /\ Top(t).kind = SessionAnySessionStore
    /\ Top(t).pc = "afterdep"
    /\ IF Top(t).ret.ok
       THEN /\ stack' = SetTop(t, [Top(t) EXCEPT !.pc = "new"])
            /\ UNCHANGED <<config, created_components, tasks, calls, nextInst,
                           createLog, cfgReads, got, loaderVars, appVars>>
       ELSE create_failed(t, Top(t).ret.err)

\* ... SessionAnySessionStore::new(Some(pool), SessionConfig::default()).await?
SessionStore_create_new(t, initiated) ==
    /\ stack[t] # << >>
    /\ Top(t).kind = SessionAnySessionStore
    /\ Top(t).pc = "new"
    /\ IF initiated
       THEN create_succeeded(t, Top(t).ret.val.id)
       ELSE create_failed(t, IntoError("axum_session::SessionError"))

\* component_insert, were only the call a task made itself to store what
\* it constructed (a nested call handing its instance to the create that
\* awaits it without an entry).
component_insert_outermost_only(t) ==
    /\ stack[t] # << >>
    /\ Top(t).pc = "insert"
    /\ created_components' =
         IF Outermost(t)
         THEN insert(created_components, TypeId(Top(t).kind), Top(t).component)
         ELSE created_components
    /\ Return(t, Ok(Top(t).component), tasks[t])
    /\ UNCHANGED <<config, calls, nextInst, createLog, cfgReads, got, loaderVars, appVars>>

\* component: `self.created_components.insert(TypeId::of::<T>(),
\* Box::new(component.clone())); Ok(component)`
component_insert(t) ==
    /\ stack[t] # << >>
    /\ Top(t).pc = "insert"
    /\ created_components' =
         insert(created_components, TypeId(Top(t).kind), Top(t).component)
    /\ Return(t, Ok(Top(t).component), tasks[t])
    /\ UNCHANGED <<config, calls, nextInst, createLog, cfgReads, got, loaderVars, appVars>>

\* create of a provider that requests a kind from the registry as its
\* first statement: `component_register.component::<Requests(T)>().await`.
Cyclic_create_dep(t) ==
    /\ stack[t] # << >>
    /\ Top(t).kind \in CycleKinds
    /\ Top(t).pc = "create"
    /\ Len(stack[t]) < MaxDepth
    /\ stack' = [stack EXCEPT ![t] =
                   Append([@ EXCEPT ![Len(@)].pc = "dep"],
                          Frame(Requests(Top(t).kind)))]
    /\ UNCHANGED <<config, created_components, tasks, calls, nextInst,
                   createLog, cfgReads, got, loaderVars, appVars>>

\* ... `?` on the nested call's result, then the provider builds itself.
Cyclic_create_afterdep(t) ==
    /\ stack[t] # << >>
    /\ Top(t).kind \in CycleKinds
    /\ Top(t).pc = "afterdep"
    /\ IF Top(t).ret.ok
       THEN create_succeeded(t, Top(t).ret.val.id)
       ELSE create_failed(t, Top(t).ret.err)

\* A task calls get::<k>() itself.  get takes `&self` and awaits nothing, so
\* it runs to its end while no `&mut` borrow of the registry is alive.
Get(t, k) ==
    /\ tasks[t].st = "idle"
    /\ MutBorrowFree
    /\ calls < MaxCalls
    /\ calls' = calls + 1
    /\ LET r == get(created_components, k) IN
         got' = [got EXCEPT ![t] = [kind |-> k, tag |-> r.tag, val |-> r.val]]
    /\ UNCHANGED <<config, created_components, stack, tasks, nextInst,
                   createLog, cfgReads, loaderVars, appVars>>

\* The places where a call is suspended with its future not ready: the
\* awaits inside T::create on operations that can be pending
\* (Database::connect, SessionAnySessionStore::new).  The other awaits of
\* component (self.get, the redis provider's create) complete in the poll
\* that reaches them.
Suspended(t) ==
    /\ stack[t] # << >>
    /\ \/ Top(t).kind = DbConn /\ Top(t).pc = "create"
       \/ Top(t).kind = SessionAnySessionStore /\ Top(t).pc = "new"

\* The caller drops the future of its component::<T>() call while it is
\* suspended: the call and the create it is inside never resume, nothing
\* of component's body runs any more.
Cancel(t) ==
    /\ Suspended(t)
    /\ stack' = [stack EXCEPT ![t] = << >>]
    /\ tasks' = [tasks EXCEPT ![t].st = "idle", ![t].invoked = "cancelled"]
    /\ createLog' = [createLog EXCEPT ![Top(t).kind][Top(t).nth] = "cancelled"]
    /\ UNCHANGED <<config, created_components, calls, nextInst, cfgReads, got, loaderVars, appVars>>

\* ComponentRegister::component, one step of the call task t is inside.
component(t) ==
    \/ component_get(t)
    \/ component_config(t)
    \/ AnyRedisPool_create(t)
    \/ \E connected \in BOOLEAN : DbConn_create(t, connected)
    \/ SessionStore_create_dep(t)
    \/ SessionStore_create_afterdep(t)
    \/ \E initiated \in BOOLEAN : SessionStore_create_new(t, initiated)
    \/ component_insert(t)

RegNext ==
    \/ \E t \in Tasks, k \in Kinds : Request(t, k)
    \/ \E t \in Tasks : Enter(t)
    \/ \E t \in Tasks : component(t)
    \/ \E t \in Tasks : Cancel(t)

\* The registry with tasks that also call get themselves.
StoreNext ==
    \/ RegNext
    \/ \E t \in Tasks, k \in Kinds : Get(t, k)



(***************************************************************************)
(* The configuration loader and the process entry point.                   *)
(***************************************************************************)
DEFAULT_FOLDER == "config"
DEFAULT_ENVIRONMENT == "development"
INSPIRER_ENV == "INSPIRER_ENV"
INSPIRER_APP_NAME == "INSPIRER_APP_NAME"
INSPIRER_CONFIG_FOLDER == "INSPIRER_CONFIG_FOLDER"
\* A variable no code of the program names: configuration files refer to it.
SOME_VAR == "SOME_VAR"

VarNames == {INSPIRER_ENV, INSPIRER_APP_NAME, INSPIRER_CONFIG_FOLDER, SOME_VAR}

\* A variable of the process environment: not set, set to a string, or set
\* to bytes that are not valid Unicode.
Unset == [state |-> "unset", val |-> ""]
NotUnicode == [state |-> "bytes", val |-> ""]
Str(v) == [state |-> "str", val |-> v]

\* Option<String> / Option<&str>
None == [some |-> FALSE, val |-> ""]
Some(v) == [some |-> TRUE, val |-> v]

\* std::env::var: Err when the variable is not set or is not valid Unicode.
env_var(e, name) ==
    IF e[name].state = "str" THEN [ok |-> TRUE, val |-> e[name].val]
    ELSE [ok |-> FALSE, val |-> ""]

\* impl FromStr for Environment
Environment_from_str(input) ==
    CASE input = "production" -> [variant |-> "Production", name |-> ""]
      [] input = "development" -> [variant |-> "Development", name |-> ""]
      [] input = "test" -> [variant |-> "Test", name |-> ""]
      [] OTHER -> [variant |-> "Any", name |-> input]

\* impl From<String> for Environment (from_str never returns Err)
Environment_from(s) == Environment_from_str(s)

\* impl Display for Environment
Environment_fmt(e) ==
    CASE e.variant = "Development" -> "development"
      [] e.variant = "Production" -> "production"
      [] e.variant = "Test" -> "test"
      [] OTHER -> e.name

\* resolve_from_env
resolve_from_env(e) ==
    IF env_var(e, INSPIRER_ENV).ok THEN env_var(e, INSPIRER_ENV).val
    ELSE DEFAULT_ENVIRONMENT

\* resolve_dotenv_file: dotenvy::dotenv() sets every variable the file
\* defines for which std::env::var is Err.
resolve_dotenv_file(e, file) ==
    [n \in DOMAIN e |->
       IF n \in DOMAIN file /\ ~env_var(e, n).ok THEN Str(file[n]) ELSE e[n]]

\* Path::is_absolute (Unix): the path starts at the root.
is_absolute(p) == Len(p) > 0 /\ SubSeq(p, 1, 1) = "/"

\* PathBuf::push: a separator is needed when the path pushed onto is not
\* empty and does not end in one.
need_sep(p) == Len(p) > 0 /\ SubSeq(p, Len(p), Len(p)) # "/"

\* Path::join (PathBuf::push on Unix): an absolute b replaces a; else b is
\* appended to a, after a separator when a needs one.
Join(a, b) ==
    IF is_absolute(b) THEN b
    ELSE IF need_sep(a) THEN a \o "/" \o b
    ELSE a \o b

\* load_folder: the candidate files, in the order they are tried.
load_folder_files(name, e, folder) ==
    IF name.some
    THEN << Join(Join(folder, name.val), Environment_fmt(e) \o ".local.toml"),
            Join(Join(folder, name.val), Environment_fmt(e) \o ".toml") >>
    ELSE << Join(folder, Environment_fmt(e) \o ".local.toml"),
            Join(folder, Environment_fmt(e) \o ".toml") >>

\* Path::exists
exists(files, p) == p \in DOMAIN files

(***************************************************************************)
(* Configuration text: a sequence of `key = value` lines.  A value is a    *)
(* quoted string, a bare token, or a {{ NAME }} placeholder.               *)
(***************************************************************************)
Quoted(v) == [t |-> "quoted", s |-> v]
Bare(v) == [t |-> "bare", s |-> v]
Placeholder(n) == [t |-> "placeholder", s |-> n]

Line(k, v) == [key |-> k, val |-> v]

\* The bare tokens that are TOML integers.
TomlIntegers == {"1", "42"}

\* What one load does and returns.  files: the candidates load_folder
\* computed; steps: the effects in the order they happened ("vars":
\* env::vars(), "read": fs::read_to_string, "expand": Tera::one_off,
\* "parse": the config builder); read: the file read; parsed: the text
\* handed to the parser; panic: the load panicked; else ok, doc and err are
\* the Result<Config> it returned.
Outcome(st, rd, tx, pn, r, d, e) ==
    [files |-> << >>, steps |-> st, read |-> rd, parsed |-> tx, panic |-> pn,
     ok |-> r, doc |-> d, err |-> e]

NotLoaded == Outcome(<< >>, "", << >>, FALSE, FALSE, << >>, "pending")

\* env::vars() collected into the tera Context: every variable that is set.
Context_of(e) ==
    [n \in {x \in DOMAIN e : e[x].state = "str"} |-> e[n].val]

\* env::vars() panics when a variable is not valid Unicode.
vars_panics(e) == \E n \in DOMAIN e : e[n].state = "bytes"

\* Tera::one_off, were it to hand the text on as it is.
Tera_one_off_verbatim(text, context) == [ok |-> TRUE, text |-> text]

\* Tera::one_off(text, context, false): every placeholder is replaced by
\* the value of its variable, inserted as it is; a variable that is not in
\* the context is an error.
Tera_one_off(text, context) ==
    IF \E i \in 1..Len(text) :
         text[i].val.t = "placeholder" /\ text[i].val.s \notin DOMAIN context
    THEN [ok |-> FALSE, text |-> << >>]
    ELSE [ok |-> TRUE,
          text |-> [i \in 1..Len(text) |->
                      IF text[i].val.t = "placeholder"
                      THEN Line(text[i].key, Bare(context[text[i].val.s]))
                      ELSE text[i]]]

\* One TOML value.
toml_value(v) ==
    IF v.t = "quoted" THEN [type |-> "string", v |-> v.s]
    ELSE [type |-> "integer", v |-> v.s]

toml_valid(v) == v.t = "quoted" \/ (v.t = "bare" /\ v.s \in TomlIntegers)

\* Cfg::builder().add_source(File::from_str(text, FileFormat::Toml)).build()
toml_build(text) ==
    IF \/ \E i \in 1..Len(text) : ~toml_valid(text[i].val)
       \/ \E i, j \in 1..Len(text) : i # j /\ text[i].key = text[j].key
    THEN [ok |-> FALSE, doc |-> << >>]
    ELSE [ok |-> TRUE,
          doc |-> [k \in {text[i].key : i \in 1..Len(text)} |->
                     toml_value((CHOOSE l \in {text[i] : i \in 1..Len(text)} :
                                   l.key = k).val)]]

\* ConfigLoader::load_config
ConfigLoader_load_config(config_file, files, e) ==
    IF vars_panics(e)
    THEN Outcome(<<"vars">>, "", << >>, TRUE, FALSE, << >>, "panic")
    ELSE IF ~files[config_file].readable
    THEN Outcome(<<"vars", "read">>, config_file, << >>, FALSE, FALSE, << >>,
                 IntoError("std::io::Error"))
    ELSE LET expanded == Tera_one_off(files[config_file].text, Context_of(e)) IN
         IF ~expanded.ok
         THEN Outcome(<<"vars", "read", "expand">>, config_file, << >>, FALSE,
                      FALSE, << >>, IntoError("tera::Error"))
         ELSE LET built == toml_build(expanded.text) IN
              IF ~built.ok
              THEN Outcome(<<"vars", "read", "expand", "parse">>, config_file,
                           expanded.text, FALSE, FALSE, << >>,
                           IntoError("config::ConfigError"))
              ELSE Outcome(<<"vars", "read", "expand", "parse">>, config_file,
                           expanded.text, FALSE, TRUE, built.doc, "none")

\* load_folder, were it to layer the override over the base file when both
\* exist (both added as sources of one builder).
ConfigLoader_load_folder_layered(name, e, folder, files, vars_) ==
    LET cands == load_folder_files(name, e, folder)
        both == exists(files, cands[1]) /\ exists(files, cands[2])
        lo == ConfigLoader_load_config(cands[1], files, vars_)
        ba == ConfigLoader_load_config(cands[2], files, vars_)
        o == IF both /\ lo.ok /\ ba.ok
             THEN [lo EXCEPT !.doc =
                     [k \in DOMAIN lo.doc \cup DOMAIN ba.doc |->
                        IF k \in DOMAIN lo.doc THEN lo.doc[k] ELSE ba.doc[k]]]
             ELSE IF exists(files, cands[1]) THEN lo
             ELSE IF exists(files, cands[2]) THEN ba
             ELSE Outcome(<< >>, "", << >>, FALSE, FALSE, << >>, "Message") IN
    [o EXCEPT !.files = cands]

\* ConfigLoader::load_folder
ConfigLoader_load_folder(name, e, folder, files, vars_) ==
    LET cands == load_folder_files(name, e, folder)
        o == IF exists(files, cands[1])
             THEN ConfigLoader_load_config(cands[1], files, vars_)
             ELSE IF exists(files, cands[2])
             THEN ConfigLoader_load_config(cands[2], files, vars_)
             ELSE Outcome(<< >>, "", << >>, FALSE, FALSE, << >>, "Message") IN
    [o EXCEPT !.files = cands]

\* ConfigLoader::load_folder_opt and ConfigLoader::load
ConfigLoader_load_folder_opt(name, e, folder, files, vars_) ==
    IF folder.some
    THEN ConfigLoader_load_folder(name, e, folder.val, files, vars_)
    ELSE ConfigLoader_load_folder(name, e, DEFAULT_FOLDER, files, vars_)

\* Environment::load_config.  Option::map_or takes its default by value, so
\* the load without a name runs first whether or not INSPIRER_APP_NAME is
\* set; with the variable set the load with the name runs after it and its
\* result is the one returned.  loads: the load_folder invocations in
\* order; ret: what load_config returns (or the panic it ends in).
Environment_load_config(e, files, vars_) ==
    LET path == IF env_var(vars_, INSPIRER_CONFIG_FOLDER).ok
                THEN Some(env_var(vars_, INSPIRER_CONFIG_FOLDER).val)
                ELSE None
        unnamed == ConfigLoader_load_folder_opt(None, e, path, files, vars_) IN
    IF env_var(vars_, INSPIRER_APP_NAME).ok /\ ~unnamed.panic
    THEN LET named == ConfigLoader_load_folder_opt(
                          Some(env_var(vars_, INSPIRER_APP_NAME).val),
                          e, path, files, vars_) IN
         [loads |-> <<unnamed, named>>, ret |-> named]
    ELSE [loads |-> <<unnamed>>, ret |-> unnamed]

(***************************************************************************)
(* The inputs of one run of the process.                                   *)
(***************************************************************************)
CliEnvironments == {None, Some("staging")}

\* A process environment.
Environ(ie, an, cf, sv) ==
    [n \in VarNames |->
       CASE n = INSPIRER_ENV -> ie
         [] n = INSPIRER_APP_NAME -> an
         [] n = INSPIRER_CONFIG_FOLDER -> cf
         [] OTHER -> sv]

\* The process environments: every combination of the variables' states
\* with a plain folder and app name, and, with the other two variables
\* unset, the folders and app names Path::join treats specially: the empty
\* string, a folder with a trailing separator, an absolute app name.
Environs ==
    { Environ(ie, an, cf, sv) :
        ie \in {Unset, NotUnicode, Str("test")},
        an \in {Unset, Str("app")},
        cf \in {Unset, Str("etc")},
        sv \in {Unset, NotUnicode, Str("42"), Str("4 2")} }
    \cup
    { Environ(Unset, an, cf, Unset) :
        an \in {Unset, Str("app"), Str(""), Str("/abs")},
        cf \in {Unset, Str("etc"), Str(""), Str("etc/")} }

DotenvFiles == { << >>, [n \in {INSPIRER_ENV} |-> "production"] }

\* The text of a configuration file at path p: every file names itself and
\* says whether it is a local override; the base files have one key more;
\* a file with a template takes its port from SOME_VAR.
FileText(p, local, template) ==
    << Line("source", Quoted(p)),
       Line("marker", Quoted(IF local THEN "local" ELSE "base")) >>
    \o (IF local THEN << >> ELSE << Line("base_only", Bare("1")) >>)
    \o (IF template THEN << Line("port", Placeholder(SOME_VAR)) >> ELSE << >>)

FileKinds == {"missing", "unreadable", "plain", "template"}

\* The file systems: under one folder (config, etc, or the working
\* directory) and for one environment name, each of the two files directly
\* in the folder and of the two in the folder of one application ("app"
\* under the folder, or the absolute "/abs") is missing, unreadable, or
\* readable with or without a template.
FileSystems ==
    { LET f == fn[1]
          slot == [s \in 1..4 |->
                     [path |-> IF s <= 2 THEN load_folder_files(None, Environment_from(e), f)[s]
                               ELSE load_folder_files(Some(fn[2]), Environment_from(e), f)[s - 2],
                      local |-> s \in {1, 3},
                      kind |-> k[s]]]
          present == {s \in 1..4 : k[s] # "missing"} IN
      [p \in {slot[s].path : s \in present} |->
         LET sl == slot[CHOOSE s \in present : slot[s].path = p] IN
         [readable |-> sl.kind # "unreadable",
          text |-> IF sl.kind = "unreadable" THEN << >>
                   ELSE FileText(p, sl.local, sl.kind = "template")]] :
      fn \in {<<"config", "app">>, <<"etc", "app">>, <<"", "/abs">>},
      e \in {"development", "test"},
      k \in [1..4 -> FileKinds] }

\* main up to its start: the arguments are parsed, nothing else has run.
LoaderInit ==
    /\ cli \in CliEnvironments
    /\ environ \in Environs
    /\ dotenvFile \in DotenvFiles
    /\ fs \in FileSystems
    /\ pc = "dotenv"
    /\ env = Environment_from("")
    /\ loaded = [loads |-> << >>, ret |-> NotLoaded]

\* main: `let dotenv = resolve_dotenv_file();`
main_dotenv ==
    /\ pc = "dotenv"
    /\ environ' = resolve_dotenv_file(environ, dotenvFile)
    /\ pc' = "resolve"
    /\ UNCHANGED <<cli, dotenvFile, fs, env, loaded, regVars, appVars>>

\* main_resolve, were the variable to win over the flag.
main_resolve_variable_first ==
    /\ pc = "resolve"
    /\ env' = Environment_from(IF env_var(environ, INSPIRER_ENV).ok
                               THEN env_var(environ, INSPIRER_ENV).val
                               ELSE IF cli.some THEN cli.val
                               ELSE DEFAULT_ENVIRONMENT)
    /\ pc' = "load"
    /\ UNCHANGED <<cli, environ, dotenvFile, fs, loaded, regVars, appVars>>

\* main: `let env: Environment = cli.environment.unwrap_or_else(resolve_from_env).into();`
main_resolve ==
    /\ pc = "resolve"
    /\ env' = Environment_from(IF cli.some THEN cli.val
                               ELSE resolve_from_env(environ))
    /\ pc' = "load"
    /\ UNCHANGED <<cli, environ, dotenvFile, fs, loaded, regVars, appVars>>

\* main_load_config, were main to go on whatever load_config returned.
main_load_config_unchecked ==
    /\ pc = "load"
    /\ loaded' = Environment_load_config(env, fs, environ)
    /\ pc' = "command"
    /\ UNCHANGED <<cli, environ, dotenvFile, fs, env, regVars, appVars>>

\* main: `let config = env.load_config().expect("Failed to load config");`
main_load_config ==
    /\ pc = "load"
    /\ loaded' = Environment_load_config(env, fs, environ)
    /\ pc' = IF loaded'.ret.panic \/ ~loaded'.ret.ok THEN "panicked"
             ELSE "command"
    /\ UNCHANGED <<cli, environ, dotenvFile, fs, env, regVars, appVars>>

\* main: `match cli.command { Commands::Start {} => println!(..) }; Ok(())`
main_command ==
    /\ pc = "command"
    /\ pc' = "returned"
    /\ UNCHANGED <<cli, environ, dotenvFile, fs, env, loaded, regVars, appVars>>

LoaderNext ==
    \/ main_dotenv
    \/ main_resolve
    \/ main_load_config
    \/ main_command

(***************************************************************************)
(* create_app and the Application Context (src/src/app.rs).                *)
(***************************************************************************)
\* The configurations create_app is called with: documents as the loader
\* builds them.
AppConfigs ==
    { toml_build(FileText(p, local, FALSE)).doc :
        p \in {"config/development.toml", "config/test.toml"},
        local \in BOOLEAN }

AppEnvironments ==
    { Environment_from(n) : n \in {"production", "development", "test", "staging"} }

\* What an implementation of AppTrait::init can return: an application
\* value, or an error.
InitResults ==
    { [ok |-> TRUE, app |-> a, err |-> "none"] : a \in {"app1", "app2"} }
    \cup { [ok |-> FALSE, app |-> "none", err |-> e] : e \in {"Message", "DB"} }

NoInitRet == [ok |-> FALSE, app |-> "none", err |-> "pending"]

NoArgs == [config |-> << >>, environment |-> Environment_from("")]

NoContext == [app |-> "none", config |-> << >>, environment |-> Environment_from("")]

NoAppRet == [ok |-> FALSE, ctx |-> NoContext, err |-> "pending"]

\* AppContext::new, were it to resolve the environment anew instead of
\* keeping the one it is given.
AppContext_new_default_environment(app, cfg, environment) ==
    [app |-> app, config |-> cfg,
     environment |-> Environment_from(DEFAULT_ENVIRONMENT)]

\* AppContext::new: the application value and shared handles (Arc) to the
\* config and the environment.
AppContext_new(app, cfg, environment) ==
    [app |-> app, config |-> cfg, environment |-> environment]

AppInit ==
    /\ appPc = "start"
    /\ appArgs \in [config : AppConfigs, environment : AppEnvironments]
    /\ initLog = << >>
    /\ initRet = NoInitRet
    /\ appRet = NoAppRet

\* create_app: `T::init(config.clone(), environment.clone())` is invoked.
create_app_init ==
    /\ appPc = "start"
    /\ initLog' = Append(initLog, [config |-> appArgs.config,
                                   environment |-> appArgs.environment])
    /\ appPc' = "awaiting"
    /\ UNCHANGED <<appArgs, initRet, appRet, regVars, loaderVars>>

\* The application's initializer completes.
AppTrait_init(r) ==
    /\ appPc = "awaiting"
    /\ initRet' = r
    /\ appPc' = "returned"
    /\ UNCHANGED <<appArgs, initLog, appRet, regVars, loaderVars>>

\* create_app: `.await?` and `Ok(AppContext::new(app, config, environment))`
create_app_return ==
    /\ appPc = "returned"
    /\ appRet' = IF initRet.ok
                 THEN [ok |-> TRUE,
                       ctx |-> AppContext_new(initRet.app, appArgs.config,
                                              appArgs.environment),
                       err |-> "none"]
                 ELSE [ok |-> FALSE, ctx |-> NoContext, err |-> initRet.err]
    /\ appPc' = "done"
    /\ UNCHANGED <<appArgs, initLog, initRet, regVars, loaderVars>>

AppNext ==
    \/ create_app_init
    \/ \E r \in InitResults : AppTrait_init(r)
    \/ create_app_return

\* create_app is not being called.
AppParked ==
    /\ appPc = "idle"
    /\ appArgs = NoArgs
    /\ initLog = << >>
    /\ initRet = NoInitRet
    /\ appRet = NoAppRet

\* The loader's variables while the registry model runs, and the
\* registry's while main runs: nothing happens to them.
LoaderParked ==
    /\ cli = None
    /\ environ = [n \in VarNames |-> Unset]
    /\ dotenvFile = << >>
    /\ fs = << >>
    /\ pc = "returned"
    /\ env = Environment_from("")
    /\ loaded = [loads |-> << >>, ret |-> NotLoaded]

RegParked ==
    /\ ComponentRegister_new(<< >>)
    /\ stack = [t \in Tasks |-> << >>]
    /\ tasks = [t \in Tasks |-> IdleTask]
    /\ calls = MaxCalls
    /\ nextInst = 1
    /\ createLog = [k \in Kinds |-> << >>]
    /\ cfgReads = [k \in Kinds |-> 0]
    /\ got = [t \in Tasks |-> NoGet]

Init == RegInit /\ LoaderParked /\ AppParked

Spec == Init /\ [][RegNext]_vars

StoreSpec == Init /\ [][StoreNext]_vars

\* The registry when the work of the providers comes to an end: a call
\* that is inside component is polled until it returns (the operations
\* its create awaits complete).  component takes `&mut self` and the crate
\* has no lock, queue or waiter of its own for the registry: nothing says
\* when, or whether, a task that wants to call is given the exclusive
\* borrow, so Enter is under no fairness condition.
FairSpec ==
    /\ Spec
    /\ \A t \in Tasks : WF_vars(component(t))

\* A registry used with providers that request themselves, directly or
\* through one another.
CycleDocuments ==
    UNION { [ks -> {"ok", "mismatch"}] :
              ks \in SUBSET {config_key(k) : k \in CycleKinds} }

CycleInit ==
    /\ \E doc \in CycleDocuments : ComponentRegister_new(doc)
    /\ stack = [t \in Tasks |-> << >>]
    /\ tasks = [t \in Tasks |-> IdleTask]
    /\ calls = 0
    /\ nextInst = 1
    /\ createLog = [k \in CycleKinds |-> << >>]
    /\ cfgReads = [k \in CycleKinds |-> 0]
    /\ got = [t \in Tasks |-> NoGet]
    /\ LoaderParked
    /\ AppParked

CycleNext ==
    \/ \E t \in Tasks, k \in CycleKinds : Request(t, k)
    \/ \E t \in Tasks : Enter(t)
    \/ \E t \in Tasks : component_get(t)
    \/ \E t \in Tasks : component_config(t)
    \/ \E t \in Tasks : Cyclic_create_dep(t)
    \/ \E t \in Tasks : Cyclic_create_afterdep(t)

CycleSpec == CycleInit /\ [][CycleNext]_vars

\* One run of main.  main does not call create_app and builds no
\* ComponentRegister: there is no step of it that changes their state.
MainInit == LoaderInit /\ RegParked /\ AppParked

LoaderSpec == MainInit /\ [][LoaderNext]_vars

\* One call of create_app.
CreateAppInit == AppInit /\ RegParked /\ LoaderParked

AppSpec == CreateAppInit /\ [][AppNext]_vars

(***************************************************************************)
(* Properties of the component registry.                                   *)
(***************************************************************************)
Has(k) == TypeId(k) \in DOMAIN created_components

Stored(k) == created_components[TypeId(k)]

\* Task t's call for kind k has returned.
Returned(t, k) ==
    /\ tasks[t].st = "idle"
    /\ tasks[t].kind = k
    /\ tasks[t].result # NoResult

\* C1: once T::create has succeeded for a kind and its instance is stored,
\* exactly one invocation of T::create has succeeded (every other one
\* failed or was dropped before it, so a provider that does not fail and
\* is not dropped is invoked exactly once), every call that returns Ok returns the stored instance, and no
\* later step invokes T::create or extracts T's config section again.
C1_CreateOnceThenClone ==
    /\ [](\A k \in Kinds : Has(k) =>
            /\ creates[k] = fails[k] + cancels[k] + 1
            /\ \A t \in Tasks :
                 (Returned(t, k) /\ tasks[t].result.ok)
                     => tasks[t].result.val = Stored(k))
    /\ [][\A k \in Kinds : Has(k) =>
            /\ creates'[k] = creates[k]
            /\ cfgReads'[k] = cfgReads[k]]_vars

\* Two calls for the same kind have returned Ok with the same instance, one
\* of them having constructed it and the other having found it stored.
C1_Witness ==
    \E k \in Kinds, t, u \in Tasks :
        /\ t # u
        /\ Has(k) /\ creates[k] = 1 /\ cfgReads[k] = 1
        /\ Returned(t, k) /\ tasks[t].invoked = "ok"
        /\ Returned(u, k) /\ tasks[u].invoked = "no" /\ ~tasks[u].extracted
        /\ tasks[u].peers = {} /\ tasks[t].peers = {}
        /\ tasks[t].result = Ok(Stored(k))
        /\ tasks[u].result = Ok(Stored(k))

\* Tasks t and u are two callers of component::<k>() whose calls were
\* pending together (each issued before the other returned).
Concurrent(t, u, k) ==
    /\ t # u
    /\ tasks[t].kind = k /\ tasks[u].kind = k
    /\ (u \in tasks[t].peers \/ t \in tasks[u].peers)

\* C2 (as stated): of two concurrent first-time callers of component::<T>()
\* at most one invokes T::create.
C2_ExactlyOneInvocation ==
    \A k \in Kinds, t, u \in Tasks :
        Concurrent(t, u, k) =>
            ~(tasks[t].invoked # "no" /\ tasks[u].invoked # "no")

\* C2 (amended): no two invocations of T::create for one kind are ever in
\* flight together, and of two concurrent first-time callers the second
\* invokes T::create only when the other's invocation has returned an
\* error or was dropped by its caller; an invocation that succeeded, or is
\* still in flight, is the only one.
C2_OneInvocationUnlessFailed ==
    /\ \A k \in Kinds : Cardinality(InCreate(k)) <= 1
    /\ \A k \in Kinds, t, u \in Tasks :
         (Concurrent(t, u, k) /\ tasks[t].invoked # "no" /\ tasks[u].invoked # "no")
             => (tasks[t].invoked \in {"err", "cancelled"}
                   \/ tasks[u].invoked \in {"err", "cancelled"})
    /\ \A k \in Kinds, t, u \in Tasks :
         (Concurrent(t, u, k) /\ Returned(t, k) /\ Returned(u, k)
            /\ tasks[t].result.ok /\ tasks[u].result.ok
            /\ fails[k] = 0 /\ cancels[k] = 0)
             => creates[k] = 1

\* Two concurrent first-time callers have both returned Ok after a single
\* invocation of T::create.
C2_Witness ==
    \E k \in Kinds, t, u \in Tasks :
        /\ Concurrent(t, u, k)
        /\ u \in tasks[t].peers
        /\ Returned(t, k) /\ Returned(u, k)
        /\ tasks[t].result.ok /\ tasks[u].result.ok
        /\ tasks[t].result = tasks[u].result
        /\ creates[k] = 1
        /\ {tasks[t].invoked, tasks[u].invoked} = {"ok", "no"}

\* The T::create invocation that was in flight when task t issued its call
\* for kind k has this outcome now.
SawOutcome(t, k, o) ==
    /\ tasks[t].kind = k
    /\ tasks[t].sawInFlight # 0
    /\ createLog[k][tasks[t].sawInFlight] = o

LateCallerRunning(t) ==
    /\ SawOutcome(t, tasks[t].kind, "ok")
    /\ stack[t] # << >>

ProviderErrors(k) ==
    CASE k = AnyRedisPool -> {"RedisError"}
      [] k = DbConn -> {"DB"}
      [] k = SessionAnySessionStore -> {"SessionError", "RedisError", "ConfigError"}

\* C4: when T::create returns an error the call returns it converted to
\* the unified error and the registry holds no entry for T after that step;
\* nothing remembers the failure: a call returns without having extracted
\* the config only when it found an entry, every call that finds none
\* extracts the config and (the section being there) invokes T::create
\* again, and a call whose invocation succeeded returns the instance it
\* stored.
C4_FailureNotCached ==
    /\ [](\A t \in Tasks, k \in Kinds : Returned(t, k) =>
            /\ tasks[t].invoked = "err" =>
                 (~tasks[t].result.ok /\ tasks[t].result.err \in ProviderErrors(k))
            /\ ~tasks[t].extracted =>
                 (Has(k) /\ tasks[t].result = Ok(Stored(k)))
            /\ (tasks[t].extracted /\ tasks[t].invoked = "no") =>
                 (config_key(k) \notin DOMAIN config
                    \/ config[config_key(k)] = "mismatch")
            /\ tasks[t].invoked = "ok" =>
                 (Has(k) /\ tasks[t].result = Ok(Stored(k))))
    /\ [][\A k \in Kinds :
            fails'[k] > fails[k] => ~(TypeId(k) \in DOMAIN created_components')]_vars

\* A call failed in T::create, and a later call for the same kind invoked
\* T::create again, stored the instance and returned it.
C4_Witness ==
    \E k \in Kinds, t, u \in Tasks :
        /\ t # u
        /\ Returned(t, k) /\ tasks[t].invoked = "err" /\ ~tasks[t].result.ok
        /\ Returned(u, k) /\ tasks[u].invoked = "ok" /\ tasks[u].extracted
        /\ tasks[u].peers = {} /\ tasks[t].peers = {}
        /\ createLog[k] = <<"err", "ok">>
        /\ cfgReads[k] = 2
        /\ Has(k) /\ tasks[u].result = Ok(Stored(k))

\* C5: once the session store has been constructed (its create having
\* obtained the redis pool from the registry), T::create of the redis pool
\* has been invoked exactly once in total, the registry holds the pool the
\* session store was built from, and a direct component::<AnyRedisPool>()
\* call returns that same pool.
C5_DependencySharedWithDirectCallers ==
    Has(SessionAnySessionStore) =>
        /\ creates[AnyRedisPool] = 1
        /\ Has(AnyRedisPool)
        /\ Stored(AnyRedisPool).id = Stored(SessionAnySessionStore).dep
        /\ \A t \in Tasks : Returned(t, AnyRedisPool) =>
              /\ tasks[t].result.ok
              /\ tasks[t].result.val.id = Stored(SessionAnySessionStore).dep

\* A session store call constructed the pool inside its create, and a
\* direct redis call issued after it had returned got that pool without
\* constructing.
C5_Witness ==
    \E t, u \in Tasks :
        /\ t # u
        /\ Returned(t, SessionAnySessionStore) /\ tasks[t].result.ok
        /\ Returned(u, AnyRedisPool) /\ tasks[u].result.ok
        /\ tasks[u].peers = {} /\ tasks[u].sawInFlight = 0 /\ tasks[u].invoked = "no"
        /\ calls = 2
        /\ creates[AnyRedisPool] = 1
        /\ tasks[u].result.val.id = tasks[t].result.val.dep

\* T's config section cannot be extracted from the held document.
NoSection(k) ==
    \/ config_key(k) \notin DOMAIN config
    \/ config[config_key(k)] = "mismatch"

\* C10: when T's section is missing from the document or has the wrong
\* shape, T::create is never invoked and T never gets an entry, a
\* component::<T>() call returns the config error after having tried the
\* extraction, and the step that fails the extraction leaves the instance
\* store as it was.
C10_ConfigErrorBeforeCreate ==
    /\ [](\A k \in Kinds : NoSection(k) =>
            /\ creates[k] = 0
            /\ ~Has(k)
            /\ \A t \in Tasks : Returned(t, k) =>
                 (tasks[t].extracted /\ tasks[t].result = Err("ConfigError")))
    /\ [][\A k \in Kinds :
            (NoSection(k) /\ cfgReads'[k] > cfgReads[k])
                => created_components' = created_components]_vars

\* A call for a kind whose section cannot be extracted has returned the
\* config error, with another kind already in the store.
C10_Witness ==
    \E k \in Kinds, t \in Tasks :
        /\ NoSection(k)
        /\ Returned(t, k) /\ tasks[t].result = Err("ConfigError")
        /\ cfgReads[k] = 1 /\ creates[k] = 0
        /\ created_components # << >>

(***************************************************************************)
(* Properties of the configuration loader and of environment resolution.   *)
(***************************************************************************)
\* The load_folder invocations of this run.
Loads == {loaded.loads[i] : i \in 1..Len(loaded.loads)}

\* The folders a candidate file can be in.
CandidateFolders ==
    {"config", "etc", "", "config/app", "etc/app", "app", "/abs"}

IsPrefix(a, b) == Len(a) <= Len(b) /\ \A i \in 1..Len(a) : a[i] = b[i]

\* C6: every load_folder invocation has the candidates <env>.local.toml and
\* <env>.toml of one folder, in this order, and reads at most one file, one
\* of the two; when the local file exists it is the one read (also when it
\* then cannot be read) and a document that results holds the local file's
\* keys and values only; the base file is read only when the local file
\* does not exist.
C6_FirstExistingOnly ==
    \A o \in Loads :
        /\ \E d \in CandidateFolders :
             o.files = << Join(d, Environment_fmt(env) \o ".local.toml"),
                          Join(d, Environment_fmt(env) \o ".toml") >>
        /\ o.read \in {"", o.files[1], o.files[2]}
        /\ exists(fs, o.files[1]) =>
             /\ o.read = "" => o.panic
             /\ o.read # "" => o.read = o.files[1]
             /\ o.ok =>
                  /\ o.doc["source"] = [type |-> "string", v |-> o.files[1]]
                  /\ o.doc["marker"] = [type |-> "string", v |-> "local"]
                  /\ "base_only" \notin DOMAIN o.doc
        /\ o.read = o.files[2] => ~exists(fs, o.files[1])
        /\ (o.ok /\ o.read = o.files[2]) =>
             /\ o.doc["source"] = [type |-> "string", v |-> o.files[2]]
             /\ o.doc["marker"] = [type |-> "string", v |-> "base"]

\* Both files exist and are loadable, and the document is the local one.
C6_Witness ==
    \E o \in Loads :
        /\ exists(fs, o.files[1]) /\ exists(fs, o.files[2])
        /\ fs[o.files[2]].readable
        /\ o.ok
        /\ o.doc["marker"].v = "local"
        /\ o = loaded.ret

\* C7 (as stated): a load for which neither candidate exists fails with the
\* ConfigNotFound error kind, and nothing is read, expanded or parsed.
C7_ConfigNotFoundKind ==
    \A o \in Loads :
        (~exists(fs, o.files[1]) /\ ~exists(fs, o.files[2])) =>
            /\ ~o.ok /\ ~o.panic
            /\ o.err = "ConfigNotFound"
            /\ o.steps = << >> /\ o.read = "" /\ o.parsed = << >>

\* C8 (as stated): load_config reads the file, then builds the context,
\* then expands, then parses; the parser sees no placeholder; a placeholder
\* of a set variable has the variable's value in the document; a failed
\* expansion returns the template error and nothing is parsed.
C8_ReadThenContext ==
    \A o \in Loads :
        /\ IsPrefix(o.steps, <<"read", "vars", "expand", "parse">>)
        /\ \A i \in 1..Len(o.parsed) : o.parsed[i].val.t # "placeholder"
        /\ o.err = "Tera" => (~o.ok /\ o.parsed = << >>)

\* C8 (amended): load_config builds the context from the process
\* environment, then reads the file, then expands, then parses (so a
\* variable that is not valid Unicode ends the load in a panic before any
\* file is read); the parser sees no placeholder; a placeholder of a set
\* variable has the variable's value in the document; a failed expansion
\* returns the template error and nothing is parsed.
C8_ContextReadExpandParse ==
    \A o \in Loads :
        /\ IsPrefix(o.steps, <<"vars", "read", "expand", "parse">>)
        /\ o.panic => o.read = ""
        /\ \A i \in 1..Len(o.parsed) : o.parsed[i].val.t # "placeholder"
        /\ (o.ok /\ Line("port", Placeholder(SOME_VAR))
                      \in {fs[o.read].text[i] : i \in 1..Len(fs[o.read].text)}) =>
             /\ environ[SOME_VAR].state = "str"
             /\ o.doc["port"] = [type |-> "integer", v |-> environ[SOME_VAR].val]
        /\ o.err = "Tera" =>
             (~o.ok /\ o.parsed = << >> /\ o.steps = <<"vars", "read", "expand">>)
        /\ o.ok => o.steps = <<"vars", "read", "expand", "parse">>

\* A file with a placeholder has been loaded with the variable set to 42.
C8_Witness ==
    \E o \in Loads :
        /\ o.ok
        /\ environ[SOME_VAR] = Str("42")
        /\ "port" \in DOMAIN o.doc
        /\ o.doc["port"] = [type |-> "integer", v |-> "42"]

\* main has resolved the environment.
Resolved == pc \in {"load", "command", "returned", "panicked"}

\* The variant an environment name stands for.
VariantOf(n) ==
    CASE n = "production" -> "Production"
      [] n = "development" -> "Development"
      [] n = "test" -> "Test"
      [] OTHER -> "Any"

\* C9 (as stated): the flag wins over INSPIRER_ENV, which wins over the
\* default; resolution always yields an Environment; without the flag the
\* default is what it yields only when the variable is not set (or names
\* the default itself).
C9_DefaultOnlyWhenAbsent ==
    Resolved =>
        /\ env.variant = VariantOf(Environment_fmt(env))
        /\ cli.some => Environment_fmt(env) = cli.val
        /\ (~cli.some /\ environ[INSPIRER_ENV].state = "str")
              => Environment_fmt(env) = environ[INSPIRER_ENV].val
        /\ (~cli.some /\ Environment_fmt(env) = DEFAULT_ENVIRONMENT)
              => (environ[INSPIRER_ENV] = Unset
                    \/ environ[INSPIRER_ENV] = Str(DEFAULT_ENVIRONMENT))

\* C9 (amended): the flag wins over INSPIRER_ENV, which wins over the
\* default; resolution always yields an Environment; without the flag the
\* default is what it yields when the variable is not set or its value is
\* not valid Unicode, and only then (or when the variable names the
\* default itself).
C9_FlagThenVariableThenDefault ==
    Resolved =>
        /\ env.variant = VariantOf(Environment_fmt(env))
        /\ env.variant # "Any" => env.name = ""
        /\ cli.some => Environment_fmt(env) = cli.val
        /\ (~cli.some /\ environ[INSPIRER_ENV].state = "str")
              => Environment_fmt(env) = environ[INSPIRER_ENV].val
        /\ (~cli.some /\ environ[INSPIRER_ENV].state # "str")
              => env = [variant |-> "Development", name |-> ""]
        /\ (~cli.some /\ Environment_fmt(env) = DEFAULT_ENVIRONMENT)
              => (environ[INSPIRER_ENV].state \in {"unset", "bytes"}
                    \/ environ[INSPIRER_ENV] = Str(DEFAULT_ENVIRONMENT))

\* The flag and the variable are both given and the flag is what counts.
C9_Witness ==
    /\ Resolved
    /\ cli = Some("staging")
    /\ environ[INSPIRER_ENV] = Str("test")
    /\ env = [variant |-> "Any", name |-> "staging"]

(***************************************************************************)
(* Properties of the registry with providers that request themselves.      *)
(***************************************************************************)
\* Call j of task t's chain asks for a kind whose construction the same
\* chain is already inside.
Reentrant(t, j) ==
    \E i \in 1..(j - 1) :
        /\ stack[t][i].kind = stack[t][j].kind
        /\ stack[t][i].pc \in CreatePcs

\* C11 (as stated): a request for a kind that is under construction further
\* up the same chain of calls is detected on entry: it reads no config and
\* invokes no create for that kind again, and what it returns to the
\* create that awaits it is the CyclicDependency error.
C11_CycleDetected ==
    \A t \in Tasks : \A j \in 1..Len(stack[t]) :
        /\ Reentrant(t, j) => stack[t][j].pc = "get"
        /\ (stack[t][j].pc = "afterdep"
              /\ \E i \in 1..j : stack[t][i].kind = Requests(stack[t][j].kind)
                                  /\ stack[t][i].pc \in CreatePcs)
             => stack[t][j].ret = Err("CyclicDependency")

(***************************************************************************)
(* Properties of concurrent use.                                           *)
(***************************************************************************)
\* The kinds T::create requests from the registry.
Dependencies(k) == IF k = SessionAnySessionStore THEN {AnyRedisPool} ELSE {}

\* Two different kinds neither of which is requested by the other's create.
Independent(a, b) ==
    a # b /\ a \notin Dependencies(b) /\ b \notin Dependencies(a)

\* C12 (as stated): a construction of kind A that is suspended inside its
\* create does not keep a concurrent component::<B>() call for an
\* independent kind B from starting: the waiting caller can enter.
C12_IndependentKindsNotBlocked ==
    \A t, u \in Tasks :
        (/\ t # u
         /\ Suspended(t)
         /\ tasks[u].st = "waiting"
         /\ Independent(Top(t).kind, tasks[u].kind))
            => ENABLED Enter(u)

(***************************************************************************)
(* Properties of process startup and of create_app.                        *)
(***************************************************************************)
\* C13 (as stated): App::init is never invoked more than once in a run of
\* main, and a run of main that has returned from a successful startup has
\* invoked it exactly once and holds the one AppContext made from it.
C13_OneInitPerStartup ==
    /\ Len(initLog) <= 1
    /\ pc = "returned" =>
         /\ Len(initLog) = 1
         /\ appRet.ok
         /\ appRet.ctx # NoContext

\* C14: create_app invokes App::init once, with the config and environment
\* it was called with; when init returned a value the result is Ok with a
\* context that wraps that value and holds that config and environment;
\* when init returned an error the result is that error and there is no
\* context; before create_app returns there is no result.
C14_CreateAppWrapsInit ==
    /\ Len(initLog) <= 1
    /\ appPc = "start" => initLog = << >>
    /\ appPc \in {"awaiting", "returned", "done"} => initLog = <<appArgs>>
    /\ appPc # "done" => appRet = NoAppRet
    /\ appPc = "done" =>
         IF initRet.ok
         THEN /\ appRet.ok
              /\ appRet.ctx.app = initRet.app
              /\ appRet.ctx.config = appArgs.config
              /\ appRet.ctx.environment = appArgs.environment
         ELSE /\ ~appRet.ok
              /\ appRet.err = initRet.err
              /\ appRet.ctx = NoContext

\* create_app has returned a context for the environment staging, which
\* wraps what init returned.
C14_Witness ==
    /\ appPc = "done"
    /\ appRet.ok
    /\ initLog = <<appArgs>>
    /\ appArgs.environment = [variant |-> "Any", name |-> "staging"]
    /\ appRet.ctx = [app |-> "app2", config |-> appArgs.config,
                     environment |-> appArgs.environment]

\* C15: when the nested component::<B>() has returned Ok inside A::create,
\* B has an entry and it is the instance that was returned; whenever A has
\* an entry every kind A's create requests has one, A's instance was built
\* from it, and the step that inserts A's entry finds the dependency's
\* entry already there.
C15_DepthFirst ==
    /\ [](\A t \in Tasks : \A i \in 1..Len(stack[t]) :
            (/\ stack[t][i].kind = SessionAnySessionStore
             /\ stack[t][i].ret.ok
             /\ stack[t][i].pc \in {"afterdep", "new", "insert"})
                => (Has(AnyRedisPool) /\ Stored(AnyRedisPool) = stack[t][i].ret.val))
    /\ [](\A k \in Kinds : Has(k) =>
            \A d \in Dependencies(k) :
                Has(d) /\ Stored(k).dep = Stored(d).id /\ Stored(d).id < Stored(k).id)
    /\ [][\A k \in Kinds :
            (~(TypeId(k) \in DOMAIN created_components)
               /\ TypeId(k) \in DOMAIN created_components')
                => \A d \in Dependencies(k) :
                      TypeId(d) \in DOMAIN created_components]_vars

\* The session store has been constructed by a call that built the redis
\* pool inside its create; nobody asked for the pool directly.
C15_Witness ==
    \E t \in Tasks :
        /\ Returned(t, SessionAnySessionStore) /\ tasks[t].invoked = "ok"
        /\ \A u \in Tasks : tasks[u].kind # AnyRedisPool
        /\ Has(SessionAnySessionStore) /\ Has(AnyRedisPool)
        /\ createLog[AnyRedisPool] = <<"ok">>
        /\ createLog[SessionAnySessionStore] = <<"ok">>
        /\ Stored(SessionAnySessionStore).dep = Stored(AnyRedisPool).id

\* C16: while a T::create invocation is in flight (suspended or not) T has
\* no entry; a kind that has an entry has had a create return success; the
\* step that gives T its entry is the insert of a call whose create has
\* returned Ok, and it stores what create returned; the step that drops a
\* suspended call leaves the store as it was, without an entry for T.
C16_InsertOnlyAfterSuccess ==
    /\ [](\A k \in Kinds :
            /\ InCreate(k) # {} => ~Has(k)
            /\ Has(k) => \E i \in 1..Len(createLog[k]) : createLog[k][i] = "ok")
    /\ [][\A k \in Kinds :
            (~(TypeId(k) \in DOMAIN created_components)
               /\ TypeId(k) \in DOMAIN created_components')
                => \E t \in Tasks :
                      /\ stack[t] # << >>
                      /\ Top(t).kind = k /\ Top(t).pc = "insert"
                      /\ createLog[k][Top(t).nth] = "ok"
                      /\ created_components'[TypeId(k)] = Top(t).component]_vars
    /\ [][\A k \in Kinds :
            cancels'[k] > cancels[k]
                => /\ created_components' = created_components
                   /\ ~(TypeId(k) \in DOMAIN created_components')]_vars

\* A session store call was dropped while suspended in its create, after
\* the nested redis request had completed: the pool has its entry, the
\* session store has none.
C16_Witness ==
    \E t \in Tasks :
        /\ tasks[t].kind = SessionAnySessionStore
        /\ tasks[t].st = "idle" /\ tasks[t].invoked = "cancelled"
        /\ createLog[SessionAnySessionStore] = <<"cancelled">>
        /\ ~Has(SessionAnySessionStore)
        /\ Has(AnyRedisPool)

\* C17: a registry nobody has called yet holds no entry and has invoked no
\* provider; no step removes an entry or changes the instance stored for a
\* kind; a kind gets its entry in a step of a task whose component request
\* is for that kind or for a kind whose create requests it; and at most
\* one T::create per kind ever returns success.
C17_StoreOnlyGrows ==
    /\ [](calls = 0 =>
            (created_components = << >> /\ \A k \in Kinds : creates[k] = 0))
    /\ [](\A k \in Kinds :
            Cardinality({i \in 1..Len(createLog[k]) : createLog[k][i] = "ok"}) <= 1)
    /\ [][\A k \in Kinds :
            TypeId(k) \in DOMAIN created_components
                => /\ TypeId(k) \in DOMAIN created_components'
                   /\ created_components'[TypeId(k)] = created_components[TypeId(k)]]_vars
    /\ [][\A k \in Kinds :
            (~(TypeId(k) \in DOMAIN created_components)
               /\ TypeId(k) \in DOMAIN created_components')
                => \E t \in Tasks :
                      /\ tasks[t].st = "running"
                      /\ tasks' # tasks \/ stack'[t] # stack[t]
                      /\ (tasks[t].kind = k \/ k \in Dependencies(tasks[t].kind))]_vars

\* The store holds the session store and the pool, and a later direct get
\* has returned the stored instance.
C17_Witness ==
    \E t \in Tasks :
        /\ Has(SessionAnySessionStore) /\ Has(AnyRedisPool)
        /\ got[t].tag = "Some"
        /\ got[t].kind \in Kinds
        /\ got[t].val = Stored(got[t].kind)
        /\ calls = 2

(***************************************************************************)
(* Properties of startup failure and of the app-name namespace.            *)
(***************************************************************************)
\* C18: when Environment::load_config has returned an error (or panicked)
\* main is at its panic and takes no further step: the command is
\* dispatched only after a load that returned Ok, and in a run whose load
\* failed no App::init has been invoked and no component constructed.
C18_LoaderErrorFatal ==
    /\ []((loaded.ret # NotLoaded /\ (~loaded.ret.ok \/ loaded.ret.panic)) =>
            /\ pc = "panicked"
            /\ initLog = << >>
            /\ created_components = << >>
            /\ \A k \in Kinds : creates[k] = 0)
    /\ [](pc \in {"command", "returned"} => (loaded.ret.ok /\ ~loaded.ret.panic))
    /\ [][pc # "panicked"]_vars

\* The load failed with a template error and main has panicked.
C18_Witness ==
    /\ pc = "panicked"
    /\ ~loaded.ret.ok /\ ~loaded.ret.panic
    /\ loaded.ret.err = "Tera"
    /\ loaded.ret.read # ""

\* The files of a file system that are among the given paths.
Restrict(files, paths) == [p \in DOMAIN files \cap paths |-> files[p]]

\* The folder the candidates are looked up in.
ConfigFolder ==
    IF environ[INSPIRER_CONFIG_FOLDER].state = "str"
    THEN environ[INSPIRER_CONFIG_FOLDER].val
    ELSE DEFAULT_FOLDER

\* The two candidates with (name given) or without the app-name namespace.
Candidates(name) ==
    LET dir == IF name.some THEN Join(ConfigFolder, name.val) ELSE ConfigFolder IN
    << Join(dir, Environment_fmt(env) \o ".local.toml"),
       Join(dir, Environment_fmt(env) \o ".toml") >>

\* The app name when INSPIRER_APP_NAME is set, else none.
AppName ==
    IF environ[INSPIRER_APP_NAME].state = "str"
    THEN Some(environ[INSPIRER_APP_NAME].val)
    ELSE None

\* C19 (as stated): what Environment::load_config returns has the two
\* candidates under <folder>/<app-name> when INSPIRER_APP_NAME is set and
\* the two directly under <folder> when it is not, and it is what loading
\* these two alone gives: the other files, whether they exist and what is
\* in them, make no difference.
C19_NamespaceAloneDecides ==
    loaded.ret # NotLoaded =>
        /\ loaded.ret.files = Candidates(AppName)
        /\ loaded.ret =
             ConfigLoader_load_folder(
                 AppName, env, ConfigFolder,
                 Restrict(fs, {Candidates(AppName)[1], Candidates(AppName)[2]}),
                 environ)

(***************************************************************************)
(* Type consistency of the store.                                          *)
(***************************************************************************)
\* C20: every entry of the store is kept under the identity of a kind and
\* holds an instance of that kind, so get finds under TypeId::of::<T>()
\* either nothing or a T: no get, direct or inside component, ends in the
\* panic of the failed downcast.
C20_DowncastNeverFails ==
    /\ \A id \in DOMAIN created_components :
         \E k \in Kinds : id = TypeId(k) /\ created_components[id].kind = k
    /\ \A k \in Kinds : get(created_components, k).tag \in {"Some", "None"}
    /\ \A t \in Tasks :
         /\ got[t].tag # "Panic"
         /\ tasks[t].result # Err("panic")
         /\ got[t].tag = "Some" => got[t].val.kind = got[t].kind
         /\ tasks[t].result.ok => tasks[t].result.val.kind = tasks[t].kind

\* With the session store and the pool both stored, a direct get of the
\* pool has returned the pool.
C20_Witness ==
    \E t, u \in Tasks :
        /\ t # u
        /\ Returned(u, SessionAnySessionStore) /\ tasks[u].result.ok
        /\ DOMAIN created_components =
             {TypeId(SessionAnySessionStore), TypeId(AnyRedisPool)}
        /\ got[t].kind = AnyRedisPool
        /\ got[t].tag = "Some"
        /\ got[t].val.kind = AnyRedisPool

(***************************************************************************)
(* Failure along the chain session store -> redis pool.                    *)
(***************************************************************************)
\* The session store's create of task t has its nested redis request back,
\* with an error.
DependencyFailed(t) ==
    /\ stack[t] # << >>
    /\ Top(t).kind = SessionAnySessionStore
    /\ Top(t).pc = "afterdep"
    /\ ~Top(t).ret.ok

\* C21: (i) when the nested redis request has failed, neither kind has an
\* entry, the session store call returns that very error and the step
\* leaves both without entry; every failed session store attempt made
\* while the pool has no entry has made a redis attempt of its own.
\* (ii) when the pool is stored and the session store's own construction
\* fails, the call returns the session error, the step leaves the pool's
\* entry as it is and the session store without one; the pool's create
\* has been invoked once, however many times the session store is tried.
C21_FailureAlongChain ==
    /\ [](\A t \in Tasks : DependencyFailed(t) =>
            /\ ~Has(AnyRedisPool) /\ ~Has(SessionAnySessionStore)
            /\ Top(t).ret.err \in {"RedisError", "ConfigError"}
            /\ Top(t).ret.err = "RedisError" =>
                 /\ creates[AnyRedisPool] > 0
                 /\ createLog[AnyRedisPool][creates[AnyRedisPool]] = "err")
    /\ [](~Has(AnyRedisPool) =>
            /\ fails[SessionAnySessionStore] <= cfgReads[AnyRedisPool]
            /\ ~NoSection(AnyRedisPool) =>
                 fails[SessionAnySessionStore] <= fails[AnyRedisPool])
    /\ [](Has(AnyRedisPool) => createLog[AnyRedisPool] = <<"ok">>)
    /\ [][\A t \in Tasks :
            (DependencyFailed(t) /\ stack'[t] = << >>) =>
                /\ tasks'[t].result = Err(Top(t).ret.err)
                /\ tasks'[t].st = "idle"
                /\ ~(TypeId(AnyRedisPool) \in DOMAIN created_components')
                /\ ~(TypeId(SessionAnySessionStore) \in DOMAIN created_components')]_vars
    /\ [][\A t \in Tasks :
            (/\ stack[t] # << >>
             /\ Top(t).kind = SessionAnySessionStore
             /\ Top(t).pc = "new"
             /\ fails'[SessionAnySessionStore] > fails[SessionAnySessionStore]) =>
                /\ tasks'[t].result = Err("SessionError")
                /\ TypeId(AnyRedisPool) \in DOMAIN created_components
                /\ created_components' = created_components
                /\ ~(TypeId(SessionAnySessionStore) \in DOMAIN created_components')]_vars

\* The session store's own construction failed after the pool had been
\* built; the retry found the pool stored, did not build it again and
\* stored a session store made from it.
C21_Witness ==
    \E t, u \in Tasks :
        /\ t # u
        /\ tasks[t].kind = SessionAnySessionStore
        /\ tasks[t].result = Err("SessionError")
        /\ Returned(u, SessionAnySessionStore) /\ tasks[u].invoked = "ok"
        /\ createLog[SessionAnySessionStore] = <<"err", "ok">>
        /\ createLog[AnyRedisPool] = <<"ok">>
        /\ cfgReads[AnyRedisPool] = 1
        /\ Stored(SessionAnySessionStore).dep = Stored(AnyRedisPool).id

\* The nested redis request failed twice, once for each of two session
\* store calls, and both calls returned the redis error.
C21_RetryWitness ==
    \E t, u \in Tasks :
        /\ t # u
        /\ tasks[t].kind = SessionAnySessionStore
        /\ tasks[u].kind = SessionAnySessionStore
        /\ tasks[t].result = Err("RedisError")
        /\ tasks[u].result = Err("RedisError")
        /\ createLog[AnyRedisPool] = <<"err", "err">>
        /\ createLog[SessionAnySessionStore] = <<"err", "err">>
        /\ created_components = << >>

(***************************************************************************)
(* Termination of a call.                                                  *)
(***************************************************************************)
\* The kinds reachable from k through at most n requests made by creates.
RECURSIVE ReachableWithin(_, _)
ReachableWithin(k, n) ==
    IF n = 0 THEN {k}
    ELSE {k} \cup UNION { ReachableWithin(d, n - 1) : d \in Dependencies(k) }

\* The kinds reachable from k in the graph of requests made by creates.
Reachable(k) == ReachableWithin(k, Cardinality(Kinds))

\* The graph of requests made by creates has no cycle: no kind is reachable
\* from a kind its create requests.
Acyclic ==
    \A k \in Kinds : \A d \in Dependencies(k) : k \notin Reachable(d)

\* The step is task t's call invoking T::create for the kind of its top call.
CreateInvokedBy(t) ==
    /\ stack[t] # << >>
    /\ Top(t).pc = "config"
    /\ Len(createLog'[Top(t).kind]) > Len(createLog[Top(t).kind])

\* C22: the providers' requests form no cycle, and under a scheduler that
\* lets every provider's work finish, the call that is inside component
\* (there is one at a time) comes to its end: the registry becomes free
\* again, and the step that ends a call leaves its task with an instance
\* or an error unless the caller dropped the call.  A call is never deeper than the number of kinds reachable
\* from its T; a create it invokes is of a kind reachable from T, of a kind
\* none of the creates it is inside has and none of them has already
\* requested, and one step invokes one create; over all calls no kind's
\* create is invoked more often than calls were made.
C22_CallTerminates ==
    /\ [](Acyclic)
    /\ (~MutBorrowFree) ~> MutBorrowFree
    /\ [][\A t \in Tasks :
            (stack[t] # << >> /\ stack'[t] = << >>) =>
                /\ tasks'[t].st = "idle"
                /\ tasks'[t].result # NoResult \/ tasks'[t].invoked = "cancelled"]_vars
    /\ [](\A t \in Tasks :
            /\ tasks[t].st = "running" <=> stack[t] # << >>
            /\ stack[t] # << >> =>
                 /\ Len(stack[t]) <= Cardinality(Reachable(tasks[t].kind))
                 /\ \A i \in 1..Len(stack[t]) :
                      stack[t][i].kind \in Reachable(tasks[t].kind))
    /\ [](\A k \in Kinds : creates[k] <= calls)
    /\ [][\A t \in Tasks : CreateInvokedBy(t) =>
            /\ Top(t).kind \in Reachable(tasks[t].kind)
            /\ \A i \in 1..(Len(stack[t]) - 1) :
                 /\ stack[t][i].kind # Top(t).kind
                 /\ stack[t][i].ret # NoResult =>
                      Top(t).kind \notin Dependencies(stack[t][i].kind)
            /\ \A j \in Kinds \ {Top(t).kind} : createLog'[j] = createLog[j]]_vars

\* The only call made was for the session store; it came to its end with
\* the session store's own error after one create invocation for each of
\* the two kinds reachable from it, and none for the third.
C22_Witness ==
    \E t \in Tasks :
        /\ Returned(t, SessionAnySessionStore)
        /\ tasks[t].result = Err("SessionError")
        /\ calls = 1
        /\ Reachable(SessionAnySessionStore) = {SessionAnySessionStore, AnyRedisPool}
        /\ creates[SessionAnySessionStore] = 1
        /\ creates[AnyRedisPool] = 1
        /\ creates[DbConn] = 0

====
